---------------------------- MODULE Spec2Model ----------------------------
(***************************************************************************)
(* A model of nativecompile/pyinternals.c: the call dispatch bridge        *)
(* (call_function and its helpers) and the executable code loader          *)
(* (CompiledCode_new / CompiledCode_dealloc / CompiledCode_call).          *)
(*                                                                         *)
(* The machine stack grows towards lower addresses: the stack pointer      *)
(* handed to call_function addresses the topmost slot, EXT_POP reads the   *)
(* slot and moves the pointer up by one, and the callee sits n slots above *)
(* the top.  Addresses are integers; the initial stack pointer is 0.       *)
(***************************************************************************)
EXTENDS Integers, Sequences, FiniteSets, TLC

\* ------------------------------------------------------------- bounds
MaxNa == 2          \* largest positional count of a dispatched frame
MaxNk == 2          \* largest keyword-pair count of a dispatched frame
MaxLen == 2         \* largest artifact file length (bytes)
MaxRefs == 2        \* largest reference count of the artifact before loading
MaxCalls == 2       \* most invocations of one loaded CompiledCode object

\* Slots of the caller that lie above the callee slot in the modelled stack
\* region; reading or popping above StackTop leaves the region.
CallerSlots == MaxNa + 2 * MaxNk

Min(a, b) == IF a < b THEN a ELSE b

\* ------------------------------------------------------------- objects
NULL == <<"NULL", 0>>
CalleeObj == <<"callee", 0>>       \* the object in the callee slot
SelfObj == <<"self", 0>>           \* im_self of a bound method
ImFuncObj == <<"im_func", 0>>      \* im_func of a bound method

KeyNames == {"k1", "k2"}

\* flag words are modelled as the sets of the bits that are set
METH_VARARGS == "METH_VARARGS"
METH_KEYWORDS == "METH_KEYWORDS"
METH_NOARGS == "METH_NOARGS"
METH_O == "METH_O"
CO_OPTIMIZED == "CO_OPTIMIZED"
CO_NEWLOCALS == "CO_NEWLOCALS"
CO_VARARGS == "CO_VARARGS"
CO_NOFREE == "CO_NOFREE"

\* ml_name of a native callable, with its length in characters
MethodNames == { [id |-> "len", chars |-> 3], [id |-> "longname", chars |-> 201] }

\* The callables a frame can hold.  type is the type of the callable itself
\* or, for a bound method (bound = TRUE), of its im_func; ml_name is the name
\* the callable goes by (ml_name, the function's name, the type's name);
\* argdefs is the number of declared defaults (0: func_defaults is NULL).
NativeCallees ==
    { [type |-> "cfunc", bound |-> b, ml_flags |-> fl, ml_name |-> nm,
       co_argcount |-> 0, argdefs |-> 0, co_kwonlyargcount |-> 0, co_flags |-> {}] :
         b \in BOOLEAN,
         fl \in { {METH_NOARGS}, {METH_O}, {METH_VARARGS}, {METH_VARARGS, METH_KEYWORDS} },
         nm \in MethodNames }
FunctionCallees ==
    { [type |-> "function", bound |-> b, ml_flags |-> {}, ml_name |-> [id |-> "fn", chars |-> 2],
       co_argcount |-> ac, argdefs |-> nd, co_kwonlyargcount |-> ko, co_flags |-> cf] :
         b \in BOOLEAN, ac \in 0..(MaxNa + 1), nd \in 0..1, ko \in 0..1,
         cf \in { {CO_OPTIMIZED, CO_NEWLOCALS, CO_NOFREE},
                  {CO_OPTIMIZED, CO_NEWLOCALS},
                  {CO_OPTIMIZED, CO_NEWLOCALS, CO_NOFREE, CO_VARARGS} } }
OtherCallees ==
    { [type |-> "other", bound |-> b, ml_flags |-> {}, ml_name |-> [id |-> "obj", chars |-> 3],
       co_argcount |-> 0, argdefs |-> 0, co_kwonlyargcount |-> 0, co_flags |-> {}] :
         b \in BOOLEAN }
Callees == NativeCallees \cup FunctionCallees \cup OtherCallees

\* ------------------------------------------------------------- state
VARIABLES
    oparg,            \* the packed descriptor handed to call_function
    callee,           \* what the object in the callee slot is
    kwkeys,           \* kwkeys[j]: the name carried by the j-th keyword key
    stack,            \* the stack region: address -> object reference
    pp_stack,         \* call_function's working stack pointer
    pfunc,            \* address of the callee slot
    na, nk, n,        \* call_function's locals
    func,             \* call_function's local func
    x,                \* call_function's result
    arg,              \* the popped argument of the one-argument convention
    refs,             \* object -> references acquired minus released by the bridge
    callargs,         \* the positional tuple being built or handed over
    kwdict,           \* the keyword mapping being built or handed over
    fastlocals,       \* f_localsplus of the fast path's frame
    frame,            \* "none" | "live" | "freed"
    recursion_depth,  \* tstate->recursion_depth, relative to entry
    calls,            \* every hand-over to a callable, in order
    exc,              \* the pending error
    pc                \* position in call_function

VARIABLES
    build,            \* "mmap" (USE_MMAP defined) | "heap"
    file,             \* the artifact file: whether the path opens, and its length
    code_refcnt0,     \* the artifact's reference count before construction
    code_refcnt,      \* the artifact's reference count
    self,             \* the CompiledCode object: alive, entry, code, fd, len
    owned,            \* strong references to the artifact the object holds
    fd_open,          \* whether the opened file handle is still open
    closes,           \* calls of close / fclose so far
    region,           \* length of the region now mapped, -1 when none is
    heapbuf,          \* "none" | "allocated" | "freed"
    unmaps,           \* the lengths handed to munmap, in order
    l_exc,            \* the pending error of the loader
    result,           \* what CompiledCode_new returned: "none" yet, "self", "NULL"
    selfptr,          \* CompiledCode_new's local self: "obj" | "NULL"
    failstep,         \* the step construction failed at, "none" when it has not
    dealloc_from,     \* who runs CompiledCode_dealloc: "error" | "destroy"
    entry_code,       \* the machine code at entry: what it is given -> whether it succeeds
    invocations,      \* every call of the CompiledCode object, in order
    l_pc              \* position in the loader

loaderVars == <<build, file, code_refcnt0, code_refcnt, self, owned, fd_open, closes,
                region, heapbuf, unmaps, l_exc, result, selfptr, failstep,
                dealloc_from, entry_code, invocations, l_pc>>

callVars == <<oparg, callee, kwkeys, stack, pp_stack, pfunc, na, nk, n, func, x, arg,
              refs, callargs, kwdict, fastlocals, frame, recursion_depth, calls, exc, pc>>

\* ------------------------------------------------------------- helpers
NoExc == [type |-> "none", text |-> "", name |-> "", shown |-> 0, count |-> 0,
          key |-> "", path |-> ""]
MemoryError == [NoExc EXCEPT !.type = "MemoryError"]
CalleeError == [NoExc EXCEPT !.type = "CalleeError"]

NoTuple == [null |-> TRUE, items |-> <<>>]
NoDict == [null |-> TRUE, entries |-> {}]

\* the frame as the generated code lays it out (top first): value_nk, key_nk, ...,
\* value_1, key_1, positional na ... positional 1, callee, then the caller's slots
InitStack(na0, nk0) ==
    [a \in 0..(na0 + 2 * nk0 + CallerSlots) |->
        IF a < 2 * nk0
        THEN (IF a % 2 = 0 THEN <<"val", nk0 - (a \div 2)>> ELSE <<"key", nk0 - (a \div 2)>>)
        ELSE IF a < na0 + 2 * nk0 THEN <<"pos", na0 - (a - 2 * nk0)>>
        ELSE IF a = na0 + 2 * nk0 THEN CalleeObj
        ELSE <<"caller", a - (na0 + 2 * nk0)>>]

StackTop == CHOOSE a \in DOMAIN stack : \A b \in DOMAIN stack : b <= a

Objects == { stack[a] : a \in DOMAIN stack } \cup {SelfObj, ImFuncObj}

Py_INCREF(r, o) == [r EXCEPT ![o] = @ + 1]
Py_DECREF(r, o) == [r EXCEPT ![o] = @ - 1]

\* type checks on call_function's local func
IsBoundMethod(f) == f = CalleeObj /\ callee.bound
PyCFunction_Check(f) == ~IsBoundMethod(f) /\ callee.type = "cfunc"
PyFunction_Check(f) == ~IsBoundMethod(f) /\ callee.type = "function"

\* a hand-over to a callable: who is called, through what, with what
Result(k) == <<"result", k>>

\* a hand-over to a callable: who is called, through what, with what, at what
\* recursion depth, and what it gave back
Call(via, target, args, kw, ret) ==
    [via |-> via, target |-> target, args |-> args, kw |-> kw,
     depth |-> recursion_depth, ret |-> ret]

NoSelf == [alive |-> FALSE, entry |-> "NULL", code |-> "NULL", fd |-> "none", len |-> 0]

\* the loader before any construction, for a given build, file and artifact
LoaderStart(b, f, r0) ==
    /\ build = b
    /\ file = f
    /\ code_refcnt0 = r0
    /\ code_refcnt = r0
    /\ self = NoSelf
    /\ owned = 0
    /\ fd_open = FALSE
    /\ closes = 0
    /\ region = -1
    /\ heapbuf = "none"
    /\ unmaps = <<>>
    /\ l_exc = NoExc
    /\ result = "none"
    /\ selfptr = "NULL"
    /\ failstep = "none"
    /\ dealloc_from = "none"
    /\ l_pc = "idle"

\* what a caller of the CompiledCode object may supply, and what the entry
\* point may conceivably be given
NoParams == [args |-> <<>>, kw |-> {}]
CallerArgs == { NoParams, [args |-> <<"a">>, kw |-> {}], [args |-> <<>>, kw |-> {"k"}] }

\* the loaded machine code, not yet called
InvokeStart(e) ==
    /\ entry_code = e
    /\ invocations = <<>>

\* the bridge on entry to call_function, for a given frame and callee
CallStart(na0, nk0, hi, keys, c) ==
    /\ oparg = na0 + 256 * nk0 + 65536 * hi
    /\ stack = InitStack(na0, nk0)
    /\ kwkeys = keys
    /\ callee = c
    /\ pp_stack = 0
    /\ pfunc = 0
    /\ na = 0 /\ nk = 0 /\ n = 0
    /\ func = NULL
    /\ x = NULL
    /\ arg = NULL
    /\ refs = [o \in Objects |-> 0]
    /\ callargs = NoTuple
    /\ kwdict = NoDict
    /\ fastlocals = <<>>
    /\ frame = "none"
    /\ recursion_depth = 0
    /\ calls = <<>>
    /\ exc = NoExc
    /\ pc = "start"

Files == { [path |-> p, exists |-> e, len |-> l] :
             p \in {"a.bin", "b.bin"}, e \in BOOLEAN, l \in 0..MaxLen }

Init ==
    /\ \E na0 \in 0..MaxNa, nk0 \in 0..MaxNk, hi \in 0..1 :
          \E keys \in [1..nk0 -> KeyNames], c \in Callees :
             CallStart(na0, nk0, hi, keys, c)
    /\ LoaderStart("mmap", [path |-> "a.bin", exists |-> TRUE, len |-> 1], 1)
    /\ InvokeStart([a \in CallerArgs |-> TRUE])

LoaderInit ==
    /\ CallStart(0, 0, 0, <<>>, CHOOSE c \in OtherCallees : ~c.bound)
    /\ \E b \in {"mmap", "heap"}, f \in Files, r0 \in 1..MaxRefs : LoaderStart(b, f, r0)
    /\ \E e \in [CallerArgs -> BOOLEAN] : InvokeStart(e)

inputs == <<oparg, callee, kwkeys, loaderVars>>
decoded == <<pfunc, na, nk, n>>

\* lines 69-73 with n = na + nk: a keyword pair counted as one slot
Decode_PairAsOneSlot ==
    /\ pc = "start"
    /\ na' = oparg % 256
    /\ nk' = (oparg \div 256) % 256
    /\ n' = na' + nk'
    /\ pfunc' = pp_stack + n'
    /\ func' = stack[pfunc']
    /\ pc' = "dispatch"
    /\ UNCHANGED <<inputs, stack, pp_stack, x, arg, refs, callargs, kwdict,
                   fastlocals, frame, recursion_depth, calls, exc>>

\* call_function, lines 69-73: decode the descriptor and locate the callee
Decode ==
    /\ pc = "start"
    /\ na' = oparg % 256
    /\ nk' = (oparg \div 256) % 256
    /\ n' = na' + 2 * nk'
    /\ pfunc' = pp_stack + n'
    /\ func' = stack[pfunc']
    /\ pc' = "dispatch"
    /\ UNCHANGED <<inputs, stack, pp_stack, x, arg, refs, callargs, kwdict,
                   fastlocals, frame, recursion_depth, calls, exc>>

\* err_args with the test of line 259 on the wrong flag: the no-argument
\* callable gets the one-argument message
err_args_WrongFlag(f, flags, nargs) ==
    [NoExc EXCEPT !.type = "TypeError",
                  !.text = IF METH_O \in flags
                           THEN "takes no arguments"
                           ELSE "takes exactly one argument",
                  !.name = callee.ml_name.id,
                  !.shown = Min(callee.ml_name.chars, 200),
                  !.count = nargs]

\* err_args, lines 256-269: the argument-count error of a restricted native callable
err_args(f, flags, nargs) ==
    [NoExc EXCEPT !.type = "TypeError",
                  !.text = IF METH_NOARGS \in flags
                           THEN "takes no arguments"
                           ELSE "takes exactly one argument",
                  !.name = callee.ml_name.id,
                  !.shown = Min(callee.ml_name.chars, 200),
                  !.count = nargs]

\* what a callable that was handed control gives back: a result, or NULL with
\* its error pending
Returns(ok, k) == IF ok THEN Result(k) ELSE NULL
Raised(ok) == IF ok THEN exc ELSE CalleeError

NativeTier == pc = "dispatch" /\ PyCFunction_Check(func) /\ nk = 0
Restricted == callee.ml_flags \cap {METH_NOARGS, METH_O} # {}

\* lines 82-84: the no-argument convention, na = 0
NativeNoArgs ==
    /\ NativeTier /\ Restricted
    /\ METH_NOARGS \in callee.ml_flags /\ na = 0
    /\ \E ok \in BOOLEAN :
          /\ calls' = Append(calls, Call("meth", func, NoTuple, NoDict,
                                  Returns(ok, Len(calls) + 1)))
          /\ x' = Returns(ok, Len(calls) + 1)
          /\ exc' = Raised(ok)
    /\ pc' = "cleanup"
    /\ UNCHANGED <<inputs, decoded, stack, pp_stack, func, arg, refs, callargs, kwdict,
                   fastlocals, frame, recursion_depth>>

\* lines 85-87: the one-argument convention, na = 1: pop the argument and call
NativeOneArgCall ==
    /\ NativeTier /\ Restricted
    /\ ~(METH_NOARGS \in callee.ml_flags /\ na = 0)
    /\ METH_O \in callee.ml_flags /\ na = 1
    /\ arg' = stack[pp_stack]
    /\ pp_stack' = pp_stack + 1
    /\ \E ok \in BOOLEAN :
          /\ calls' = Append(calls, Call("meth", func, [null |-> FALSE, items |-> <<arg'>>], NoDict,
                                  Returns(ok, Len(calls) + 1)))
          /\ x' = Returns(ok, Len(calls) + 1)
          /\ exc' = Raised(ok)
    /\ pc' = "meth_o_decref"
    /\ UNCHANGED <<inputs, decoded, stack, func, refs, callargs, kwdict,
                   fastlocals, frame, recursion_depth>>

\* line 88 without the Py_DECREF: the popped argument is never released
NativeOneArgDecref_Leak ==
    /\ pc = "meth_o_decref"
    /\ pc' = "cleanup"
    /\ UNCHANGED <<inputs, decoded, stack, pp_stack, func, x, arg, refs, callargs, kwdict,
                   fastlocals, frame, recursion_depth, calls, exc>>

\* line 88: Py_DECREF(arg)
NativeOneArgDecref ==
    /\ pc = "meth_o_decref"
    /\ refs' = Py_DECREF(refs, arg)
    /\ pc' = "cleanup"
    /\ UNCHANGED <<inputs, decoded, stack, pp_stack, func, x, arg, callargs, kwdict,
                   fastlocals, frame, recursion_depth, calls, exc>>

\* lines 90-93: wrong argument count for a restricted native callable
NativeErrArgs ==
    /\ NativeTier /\ Restricted
    /\ ~(METH_NOARGS \in callee.ml_flags /\ na = 0)
    /\ ~(METH_O \in callee.ml_flags /\ na = 1)
    /\ exc' = err_args(func, callee.ml_flags, na)
    /\ x' = NULL
    /\ pc' = "cleanup"
    /\ UNCHANGED <<inputs, decoded, stack, pp_stack, func, arg, refs, callargs, kwdict,
                   fastlocals, frame, recursion_depth, calls>>

\* load_args, lines 223-226: pop k slots into the tuple, the top slot last
RECURSIVE load_args_loop(_, _, _)
load_args_loop(k, sp, items) ==
    IF k - 1 >= 0
    THEN load_args_loop(k - 1, sp + 1, [items EXCEPT ![k] = stack[sp]])
    ELSE [items |-> items, sp |-> sp]

\* lines 223-226 filling the tuple in pop order: the top slot first
load_args_PopOrder(sp, k, alloc) ==
    IF ~alloc
    THEN [args |-> NoTuple, sp |-> sp]
    ELSE [args |-> [null |-> FALSE, items |-> [i \in 1..k |-> stack[sp + i - 1]]],
          sp |-> sp + k]

\* load_args, lines 215-228; alloc: whether PyTuple_New succeeds
load_args(sp, k, alloc) ==
    IF ~alloc
    THEN [args |-> NoTuple, sp |-> sp]
    ELSE LET r == load_args_loop(k, sp, [i \in 1..k |-> NULL])
         IN  [args |-> [null |-> FALSE, items |-> r.items], sp |-> r.sp]

\* releasing a tuple releases the references it owns (Py_XDECREF of callargs)
ReleaseTuple(r, t) ==
    [o \in DOMAIN r |-> r[o] - Cardinality({i \in DOMAIN t.items : t.items[i] = o})]

\* releasing a keyword mapping releases the keys and values it holds
ReleaseDict(r, d) ==
    [o \in DOMAIN r |-> r[o] - Cardinality({e \in d.entries : e.key = o})
                             - Cardinality({e \in d.entries : e.value = o})]

\* lines 96-97: native callable of the general convention: build the tuple
NativeLoadArgs ==
    /\ NativeTier /\ ~Restricted
    /\ \E alloc \in BOOLEAN :
          LET r == load_args(pp_stack, na, alloc)
          IN  /\ callargs' = r.args
              /\ pp_stack' = r.sp
              /\ exc' = IF alloc THEN exc ELSE MemoryError
    /\ pc' = "cfunc_call"
    /\ UNCHANGED <<inputs, decoded, stack, func, x, arg, refs, kwdict,
                   fastlocals, frame, recursion_depth, calls>>

\* line 98: x = PyCFunction_Call(func, callargs, NULL)
NativeCall ==
    /\ pc = "cfunc_call"
    /\ \E ok \in BOOLEAN :
          /\ calls' = Append(calls, Call("PyCFunction_Call", func, callargs, NoDict,
                                  Returns(ok, Len(calls) + 1)))
          /\ x' = Returns(ok, Len(calls) + 1)
          /\ exc' = Raised(ok)
    /\ pc' = "cfunc_decref"
    /\ UNCHANGED <<inputs, decoded, stack, pp_stack, func, arg, refs, callargs, kwdict,
                   fastlocals, frame, recursion_depth>>

\* line 99: Py_XDECREF(callargs)
NativeDecrefArgs ==
    /\ pc = "cfunc_decref"
    /\ refs' = ReleaseTuple(refs, callargs)
    /\ callargs' = NoTuple
    /\ pc' = "cleanup"
    /\ UNCHANGED <<inputs, decoded, stack, pp_stack, func, x, arg, kwdict,
                   fastlocals, frame, recursion_depth, calls, exc>>

\* lines 102-110: a bound method: the callee slot takes the instance, the
\* underlying function becomes func, na and n grow by one
BoundMethodRewrite ==
    /\ pc = "dispatch" /\ ~(PyCFunction_Check(func) /\ nk = 0)
    /\ IsBoundMethod(func)
    /\ refs' = Py_DECREF(Py_INCREF(Py_INCREF(refs, SelfObj), ImFuncObj), stack[pfunc])
    /\ func' = ImFuncObj
    /\ stack' = [stack EXCEPT ![pfunc] = SelfObj]
    /\ na' = na + 1
    /\ n' = n + 1
    /\ pc' = "select"
    /\ UNCHANGED <<inputs, pfunc, nk, pp_stack, x, arg, callargs, kwdict,
                   fastlocals, frame, recursion_depth, calls, exc>>

\* lines 111-112: anything else: Py_INCREF(func)
IncrefFunc ==
    /\ pc = "dispatch" /\ ~(PyCFunction_Check(func) /\ nk = 0)
    /\ ~IsBoundMethod(func)
    /\ refs' = Py_INCREF(refs, func)
    /\ pc' = "select"
    /\ UNCHANGED <<inputs, decoded, stack, pp_stack, func, x, arg, callargs, kwdict,
                   fastlocals, frame, recursion_depth, calls, exc>>

\* lines 137-139 without the test of co_kwonlyargcount
FastEligible_NoKwonly(c, n_, nk_) ==
    /\ c.argdefs = 0
    /\ c.co_argcount = n_
    /\ nk_ = 0
    /\ c.co_flags = {CO_OPTIMIZED, CO_NEWLOCALS, CO_NOFREE}

\* fast_function, lines 137-139: the test that selects the fast frame path
FastEligible(c, n_, nk_) ==
    /\ c.argdefs = 0
    /\ c.co_argcount = n_
    /\ c.co_kwonlyargcount = 0
    /\ nk_ = 0
    /\ c.co_flags = {CO_OPTIMIZED, CO_NEWLOCALS, CO_NOFREE}

\* fast_function, lines 153-158: fastlocals[i] = *stack--, from (*pp_stack) + n - 1
RECURSIVE fast_copy(_, _, _, _)
fast_copy(i, n_, sp, locals) ==
    IF i < n_
    THEN fast_copy(i + 1, n_, sp - 1, Append(locals, stack[sp]))
    ELSE locals
FastLocals(sp, n_) == fast_copy(0, n_, sp + n_ - 1, <<>>)

\* what PyEval_EvalCodeEx reads from the pointers of lines 170-171: args[0..na-1]
\* upwards from (*pp_stack)+n-1, and the pairs kws[2j], kws[2j+1] upwards from
\* (*pp_stack)+2*nk-1
GeneralArgs(sp, n_, na_) == [i \in 1..na_ |-> stack[sp + n_ - 1 + (i - 1)]]
GeneralKws(sp, nk_) ==
    { [key |-> stack[sp + 2 * nk_ - 1 + 2 * (j - 1)],
       value |-> stack[sp + 2 * nk_ - 1 + 2 * (j - 1) + 1]] : j \in 1..nk_ }

IncrefAll(r, items) ==
    [o \in DOMAIN r |-> r[o] + Cardinality({i \in DOMAIN items : items[i] = o})]

\* lines 148-150: PyFrame_New
FastFrameNew ==
    /\ pc = "select" /\ PyFunction_Check(func)
    /\ FastEligible(callee, n, nk)
    /\ \E alloc \in BOOLEAN :
          IF alloc
          THEN /\ frame' = "live"
               /\ pc' = "fast_copy"
               /\ UNCHANGED <<x, exc>>
          ELSE /\ x' = NULL
               /\ exc' = MemoryError
               /\ pc' = "decref_func"
               /\ UNCHANGED frame
    /\ UNCHANGED <<inputs, decoded, stack, pp_stack, func, arg, refs, callargs, kwdict,
                   fastlocals, recursion_depth, calls>>

\* lines 152-158: copy the n argument slots into the frame, a new reference each
FastCopyLocals ==
    /\ pc = "fast_copy"
    /\ fastlocals' = FastLocals(pp_stack, n)
    /\ refs' = IncrefAll(refs, fastlocals')
    /\ pc' = "fast_eval"
    /\ UNCHANGED <<inputs, decoded, stack, pp_stack, func, x, arg, callargs, kwdict,
                   frame, recursion_depth, calls, exc>>

\* line 159: retval = PyEval_EvalFrameEx(f, 0)
FastEvalFrame ==
    /\ pc = "fast_eval"
    /\ \E ok \in BOOLEAN :
          /\ calls' = Append(calls, Call("PyEval_EvalFrameEx", func,
                                        [null |-> FALSE, items |-> fastlocals], NoDict,
                                  Returns(ok, Len(calls) + 1)))
          /\ x' = Returns(ok, Len(calls) + 1)
          /\ exc' = Raised(ok)
    /\ pc' = "fast_inc"
    /\ UNCHANGED <<inputs, decoded, stack, pp_stack, func, arg, refs, callargs, kwdict,
                   fastlocals, frame, recursion_depth>>

\* line 160: ++tstate->recursion_depth
FastIncDepth ==
    /\ pc = "fast_inc"
    /\ recursion_depth' = recursion_depth + 1
    /\ pc' = "fast_release"
    /\ UNCHANGED <<inputs, decoded, stack, pp_stack, func, x, arg, refs, callargs, kwdict,
                   fastlocals, frame, calls, exc>>

\* line 161: Py_DECREF(f): the frame goes and releases its locals
FastReleaseFrame ==
    /\ pc = "fast_release"
    /\ refs' = ReleaseTuple(refs, [null |-> FALSE, items |-> fastlocals])
    /\ frame' = "freed"
    /\ pc' = "fast_dec"
    /\ UNCHANGED <<inputs, decoded, stack, pp_stack, func, x, arg, callargs, kwdict,
                   fastlocals, recursion_depth, calls, exc>>

\* lines 162-163 without the decrement: the depth stays raised
FastDecDepth_NoDec ==
    /\ pc = "fast_dec"
    /\ pc' = "decref_func"
    /\ UNCHANGED <<inputs, decoded, stack, pp_stack, func, x, arg, refs, callargs, kwdict,
                   fastlocals, frame, recursion_depth, calls, exc>>

\* lines 162-163: --tstate->recursion_depth; return retval
FastDecDepth ==
    /\ pc = "fast_dec"
    /\ recursion_depth' = recursion_depth - 1
    /\ pc' = "decref_func"
    /\ UNCHANGED <<inputs, decoded, stack, pp_stack, func, x, arg, refs, callargs, kwdict,
                   fastlocals, frame, calls, exc>>

\* lines 165-172: the general function path, PyEval_EvalCodeEx
GeneralFunctionCall ==
    /\ pc = "select" /\ PyFunction_Check(func)
    /\ ~FastEligible(callee, n, nk)
    /\ \E ok \in BOOLEAN :
          /\ calls' = Append(calls, Call("PyEval_EvalCodeEx", func,
                                        [null |-> FALSE, items |-> GeneralArgs(pp_stack, n, na)],
                                        [null |-> FALSE, entries |-> GeneralKws(pp_stack, nk)],
                                  Returns(ok, Len(calls) + 1)))
          /\ x' = Returns(ok, Len(calls) + 1)
          /\ exc' = Raised(ok)
    /\ pc' = "decref_func"
    /\ UNCHANGED <<inputs, decoded, stack, pp_stack, func, arg, refs, callargs, kwdict,
                   fastlocals, frame, recursion_depth>>

KeyName(o) == IF o[1] = "key" THEN kwkeys[o[2]] ELSE "notakey"

\* the error of lines 193-198
DuplicateKeyword(f, key) ==
    [NoExc EXCEPT !.type = "TypeError",
                  !.text = "got multiple values for keyword argument",
                  !.name = callee.ml_name.id,
                  !.shown = Min(callee.ml_name.chars, 200),
                  !.key = KeyName(key)]

\* update_keyword_args, lines 188-211: k pairs left to pop; failAt: the pair
\* (counted from the last) at which PyDict_SetItem fails, 0 for never
RECURSIVE kw_loop(_, _, _, _, _, _)
kw_loop(k, sp, f, r, d, failAt) ==
    IF k - 1 >= 0
    THEN LET value == stack[sp]
             key == stack[sp + 1]
             popped == Py_DECREF(Py_DECREF(r, key), value)
         IN  IF \E e \in d.entries : KeyName(e.key) = KeyName(key)
             THEN [kwdict |-> NoDict, sp |-> sp + 2, refs |-> ReleaseDict(popped, d),
                   exc |-> DuplicateKeyword(f, key)]
             ELSE IF failAt = k
             THEN [kwdict |-> NoDict, sp |-> sp + 2, refs |-> ReleaseDict(popped, d),
                   exc |-> MemoryError]
             ELSE kw_loop(k - 1, sp + 2, f,
                          Py_INCREF(Py_INCREF(popped, key), value),
                          [d EXCEPT !.entries = @ \cup {[key |-> key, value |-> value]}],
                          failAt)
    ELSE [kwdict |-> d, sp |-> sp, refs |-> r, exc |-> exc]

\* update_keyword_args, lines 175-213, with orig_kwdict = NULL; alloc: whether
\* PyDict_New succeeds
update_keyword_args(k, sp, f, r, alloc, failAt) ==
    IF ~alloc
    THEN [kwdict |-> NoDict, sp |-> sp, refs |-> r, exc |-> MemoryError]
    ELSE kw_loop(k, sp, f, r, [null |-> FALSE, entries |-> {}], failAt)

\* do_call, lines 237-241
DoCallKeywords ==
    /\ pc = "select" /\ ~PyFunction_Check(func)
    /\ IF nk > 0
       THEN \E alloc \in BOOLEAN, failAt \in 0..nk :
               LET r == update_keyword_args(nk, pp_stack, func, refs, alloc, failAt)
               IN  /\ kwdict' = r.kwdict
                   /\ pp_stack' = r.sp
                   /\ refs' = r.refs
                   /\ exc' = r.exc
                   /\ pc' = IF r.kwdict.null THEN "call_fail" ELSE "do_load"
       ELSE /\ pc' = "do_load"
            /\ UNCHANGED <<kwdict, pp_stack, refs, exc>>
    /\ UNCHANGED <<inputs, decoded, stack, func, x, arg, callargs,
                   fastlocals, frame, recursion_depth, calls>>

\* do_call, lines 242-244
DoCallLoadArgs ==
    /\ pc = "do_load"
    /\ \E alloc \in BOOLEAN :
          LET r == load_args(pp_stack, na, alloc)
          IN  /\ callargs' = r.args
              /\ pp_stack' = r.sp
              /\ exc' = IF alloc THEN exc ELSE MemoryError
              /\ pc' = IF r.args.null THEN "call_fail" ELSE "do_invoke"
    /\ UNCHANGED <<inputs, decoded, stack, func, x, arg, refs, kwdict,
                   fastlocals, frame, recursion_depth, calls>>

\* do_call, lines 246-249
DoCallInvoke ==
    /\ pc = "do_invoke"
    /\ \E ok \in BOOLEAN :
          /\ calls' = Append(calls,
                             Call(IF PyCFunction_Check(func) THEN "PyCFunction_Call"
                                                             ELSE "PyObject_Call",
                                  func, callargs, kwdict,
                                  Returns(ok, Len(calls) + 1)))
          /\ x' = Returns(ok, Len(calls) + 1)
          /\ exc' = Raised(ok)
    /\ pc' = "call_fail"
    /\ UNCHANGED <<inputs, decoded, stack, pp_stack, func, arg, refs, callargs, kwdict,
                   fastlocals, frame, recursion_depth>>

\* the label call_fail handing back NULL instead of result (line 253)
DoCallFail_DropsResult ==
    /\ pc = "call_fail"
    /\ refs' = ReleaseDict(ReleaseTuple(refs, callargs), kwdict)
    /\ callargs' = NoTuple
    /\ kwdict' = NoDict
    /\ x' = NULL
    /\ pc' = "decref_func"
    /\ UNCHANGED <<inputs, decoded, stack, pp_stack, func, arg,
                   fastlocals, frame, recursion_depth, calls, exc>>

\* do_call, lines 250-253: the label call_fail
DoCallFail ==
    /\ pc = "call_fail"
    /\ refs' = ReleaseDict(ReleaseTuple(refs, callargs), kwdict)
    /\ callargs' = NoTuple
    /\ kwdict' = NoDict
    /\ pc' = "decref_func"
    /\ UNCHANGED <<inputs, decoded, stack, pp_stack, func, x, arg,
                   fastlocals, frame, recursion_depth, calls, exc>>

\* line 117: Py_DECREF(func)
DecrefFunc ==
    /\ pc = "decref_func"
    /\ refs' = Py_DECREF(refs, func)
    /\ pc' = "cleanup"
    /\ UNCHANGED <<inputs, decoded, stack, pp_stack, func, x, arg, callargs, kwdict,
                   fastlocals, frame, recursion_depth, calls, exc>>

\* lines 120-123: one iteration of the final loop, while (pp_stack > pfunc).
\* A slot above pfunc is not part of the frame: what it holds need not be an
\* object, so releasing it either goes through or faults; above StackTop the
\* read leaves the stack region and faults.
CleanupPop ==
    /\ pc = "cleanup"
    /\ pp_stack > pfunc
    /\ \/ /\ pp_stack <= StackTop
          /\ refs' = Py_DECREF(refs, stack[pp_stack])
          /\ pp_stack' = pp_stack + 1
          /\ pc' = "cleanup"
       \/ /\ pc' = "fault"
          /\ UNCHANGED <<refs, pp_stack>>
    /\ UNCHANGED <<inputs, decoded, stack, func, x, arg, callargs, kwdict,
                   fastlocals, frame, recursion_depth, calls, exc>>

\* line 124: the loop condition is false: return x
Return ==
    /\ pc = "cleanup"
    /\ ~(pp_stack > pfunc)
    /\ pc' = "returned"
    /\ UNCHANGED <<inputs, decoded, stack, pp_stack, func, x, arg, refs, callargs, kwdict,
                   fastlocals, frame, recursion_depth, calls, exc>>

Next ==
    \/ Decode
    \/ NativeNoArgs \/ NativeOneArgCall \/ NativeOneArgDecref \/ NativeErrArgs
    \/ NativeLoadArgs \/ NativeCall \/ NativeDecrefArgs
    \/ BoundMethodRewrite \/ IncrefFunc
    \/ FastFrameNew \/ FastCopyLocals \/ FastEvalFrame
    \/ FastIncDepth \/ FastReleaseFrame \/ FastDecDepth
    \/ GeneralFunctionCall
    \/ DoCallKeywords \/ DoCallLoadArgs \/ DoCallInvoke \/ DoCallFail
    \/ DecrefFunc
    \/ CleanupPop \/ Return

vars == <<callVars, loaderVars>>

Spec == Init /\ [][Next]_vars

\* ------------------------------------------------------------- the loader
IOErrorWithFilename == [NoExc EXCEPT !.type = "IOError", !.path = file.path]
OSErrorFromErrno == [NoExc EXCEPT !.type = "OSError"]

\* lines 336-340 without the Py_INCREF of line 340: the artifact is borrowed
NewAlloc_NoIncref ==
    /\ l_pc = "idle"
    /\ \E alloc \in BOOLEAN :
          IF alloc
          THEN /\ self' = [alive |-> TRUE, entry |-> "NULL", code |-> "artifact",
                           fd |-> "none", len |-> 0]
               /\ selfptr' = "obj"
               /\ l_pc' = IF build = "mmap" THEN "open" ELSE "fopen"
               /\ UNCHANGED <<l_exc, failstep, code_refcnt, owned>>
          ELSE /\ l_exc' = MemoryError
               /\ failstep' = "alloc"
               /\ l_pc' = "end"
               /\ UNCHANGED <<self, selfptr, code_refcnt, owned>>
    /\ UNCHANGED <<callVars, entry_code, invocations, build, file, code_refcnt0, fd_open, closes, region, heapbuf,
                   unmaps, result, dealloc_from>>

\* CompiledCode_new, lines 336-340: allocate the object, take the artifact
NewAlloc ==
    /\ l_pc = "idle"
    /\ \E alloc \in BOOLEAN :
          IF alloc
          THEN /\ self' = [alive |-> TRUE, entry |-> "NULL", code |-> "artifact",
                           fd |-> "none", len |-> 0]
               /\ selfptr' = "obj"
               /\ code_refcnt' = code_refcnt + 1
               /\ owned' = owned + 1
               /\ l_pc' = IF build = "mmap" THEN "open" ELSE "fopen"
               /\ UNCHANGED <<l_exc, failstep>>
          ELSE /\ l_exc' = MemoryError
               /\ failstep' = "alloc"
               /\ l_pc' = "end"
               /\ UNCHANGED <<self, selfptr, code_refcnt, owned>>
    /\ UNCHANGED <<callVars, entry_code, invocations, build, file, code_refcnt0, fd_open, closes, region, heapbuf,
                   unmaps, result, dealloc_from>>

\* line 348: open
NewOpen ==
    /\ l_pc = "open"
    /\ IF file.exists
       THEN /\ self' = [self EXCEPT !.fd = "fd"]
            /\ fd_open' = TRUE
            /\ l_pc' = "seek"
            /\ UNCHANGED failstep
       ELSE /\ self' = [self EXCEPT !.fd = "bad"]
            /\ failstep' = "open"
            /\ l_pc' = "io_error"
            /\ UNCHANGED fd_open
    /\ UNCHANGED <<callVars, entry_code, invocations, build, file, code_refcnt0, code_refcnt, owned, closes, region,
                   heapbuf, unmaps, l_exc, result, selfptr, dealloc_from>>

\* lines 351-355: the file length
NewSeek ==
    /\ l_pc = "seek"
    /\ \E ok \in BOOLEAN :
          IF ok
          THEN /\ self' = [self EXCEPT !.len = file.len]
               /\ l_pc' = "map"
               /\ UNCHANGED <<fd_open, closes, failstep>>
          ELSE /\ fd_open' = FALSE
               /\ closes' = closes + 1
               /\ failstep' = "length"
               /\ l_pc' = "io_error"
               /\ UNCHANGED self
    /\ UNCHANGED <<callVars, entry_code, invocations, build, file, code_refcnt0, code_refcnt, owned, region,
                   heapbuf, unmaps, l_exc, result, selfptr, dealloc_from>>

\* lines 357-362 without the close of line 358 when mmap fails
NewMmap_NoClose ==
    /\ l_pc = "map"
    /\ \E ok \in BOOLEAN :
          IF ok /\ self.len > 0
          THEN /\ region' = self.len
               /\ self' = [self EXCEPT !.entry = "mem"]
               /\ l_pc' = "end"
               /\ UNCHANGED <<l_exc, failstep>>
          ELSE /\ l_exc' = OSErrorFromErrno
               /\ failstep' = "map"
               /\ l_pc' = "error"
               /\ UNCHANGED <<region, self>>
    /\ UNCHANGED <<callVars, entry_code, invocations, build, file, code_refcnt0, code_refcnt, owned,
                   fd_open, closes, heapbuf, unmaps, result, selfptr, dealloc_from>>

\* lines 357-362: mmap; an empty mapping is refused
NewMmap ==
    /\ l_pc = "map"
    /\ \E ok \in BOOLEAN :
          IF ok /\ self.len > 0
          THEN /\ region' = self.len
               /\ self' = [self EXCEPT !.entry = "mem"]
               /\ l_pc' = "end"
               /\ UNCHANGED <<fd_open, closes, l_exc, failstep>>
          ELSE /\ fd_open' = FALSE
               /\ closes' = closes + 1
               /\ l_exc' = OSErrorFromErrno
               /\ failstep' = "map"
               /\ l_pc' = "error"
               /\ UNCHANGED <<region, self>>
    /\ UNCHANGED <<callVars, entry_code, invocations, build, file, code_refcnt0, code_refcnt, owned,
                   heapbuf, unmaps, result, selfptr, dealloc_from>>

\* line 367: fopen
NewFopen ==
    /\ l_pc = "fopen"
    /\ IF file.exists
       THEN /\ fd_open' = TRUE
            /\ l_pc' = "ftell"
            /\ UNCHANGED failstep
       ELSE /\ failstep' = "open"
            /\ l_pc' = "io_error"
            /\ UNCHANGED fd_open
    /\ UNCHANGED <<callVars, entry_code, invocations, build, file, code_refcnt0, code_refcnt, self, owned, closes,
                   region, heapbuf, unmaps, l_exc, result, selfptr, dealloc_from>>

\* lines 370-373: the file length
NewFtell ==
    /\ l_pc = "ftell"
    /\ \E ok \in BOOLEAN :
          IF ok
          THEN /\ l_pc' = "malloc"
               /\ UNCHANGED <<fd_open, closes, failstep>>
          ELSE /\ fd_open' = FALSE
               /\ closes' = closes + 1
               /\ failstep' = "length"
               /\ l_pc' = "io_error"
    /\ UNCHANGED <<callVars, entry_code, invocations, build, file, code_refcnt0, code_refcnt, self, owned,
                   region, heapbuf, unmaps, l_exc, result, selfptr, dealloc_from>>

\* lines 375-378: PyMem_Malloc(len)
NewMalloc ==
    /\ l_pc = "malloc"
    /\ \E ok \in BOOLEAN :
          IF ok
          THEN /\ self' = [self EXCEPT !.entry = "mem"]
               /\ heapbuf' = "allocated"
               /\ l_pc' = "fread"
               /\ UNCHANGED <<fd_open, closes, failstep>>
          ELSE /\ fd_open' = FALSE
               /\ closes' = closes + 1
               /\ failstep' = "malloc"
               /\ l_pc' = "error"
               /\ UNCHANGED <<self, heapbuf>>
    /\ UNCHANGED <<callVars, entry_code, invocations, build, file, code_refcnt0, code_refcnt, owned,
                   region, unmaps, l_exc, result, selfptr, dealloc_from>>

\* lines 380-382: fread, fclose, short read
NewFread ==
    /\ l_pc = "fread"
    /\ fd_open' = FALSE
    /\ closes' = closes + 1
    /\ \E read \in 0..file.len :
          IF read < file.len
          THEN /\ failstep' = "read"
               /\ l_pc' = "io_error"
          ELSE /\ l_pc' = "end"
               /\ UNCHANGED failstep
    /\ UNCHANGED <<callVars, entry_code, invocations, build, file, code_refcnt0, code_refcnt, self, owned,
                   region, heapbuf, unmaps, l_exc, result, selfptr, dealloc_from>>

\* lines 387-388: the label io_error
IoError ==
    /\ l_pc = "io_error"
    /\ l_exc' = IOErrorWithFilename
    /\ l_pc' = "error"
    /\ UNCHANGED <<callVars, entry_code, invocations, build, file, code_refcnt0, code_refcnt, self, owned, fd_open,
                   closes, region, heapbuf, unmaps, result, selfptr, failstep, dealloc_from>>

\* the label error without the Py_DECREF(self) of line 390: the partial
\* object is dropped on the floor
ErrorDiscard_Leak ==
    /\ l_pc = "error"
    /\ l_pc' = "error_null"
    /\ UNCHANGED <<callVars, entry_code, invocations, build, file, code_refcnt0, code_refcnt, self, owned, fd_open,
                   closes, region, heapbuf, unmaps, l_exc, result, selfptr, failstep,
                   dealloc_from>>

\* line 390: the label error: Py_DECREF(self) drops the only reference
ErrorDiscard ==
    /\ l_pc = "error"
    /\ dealloc_from' = "error"
    /\ l_pc' = "dealloc"
    /\ UNCHANGED <<callVars, entry_code, invocations, build, file, code_refcnt0, code_refcnt, self, owned, fd_open,
                   closes, region, heapbuf, unmaps, l_exc, result, selfptr, failstep>>

\* line 391: self = NULL
ErrorNull ==
    /\ l_pc = "error_null"
    /\ selfptr' = "NULL"
    /\ l_pc' = "end"
    /\ UNCHANGED <<callVars, entry_code, invocations, build, file, code_refcnt0, code_refcnt, self, owned, fd_open,
                   closes, region, heapbuf, unmaps, l_exc, result, failstep, dealloc_from>>

\* lines 393-397: return self
NewReturn ==
    /\ l_pc = "end"
    /\ result' = IF selfptr = "obj" THEN "self" ELSE "NULL"
    /\ l_pc' = IF selfptr = "obj" THEN "live" ELSE "failed"
    /\ UNCHANGED <<callVars, entry_code, invocations, build, file, code_refcnt0, code_refcnt, self, owned, fd_open,
                   closes, region, heapbuf, unmaps, l_exc, selfptr, failstep, dealloc_from>>

\* CompiledCode_call with the caller's arguments handed on to the entry point
CompiledCode_call_PassArgs(self_, args, kw) == [args |-> args, kw |-> kw]

\* CompiledCode_call, lines 400-402: what self->entry() is given: nothing
CompiledCode_call(self_, args, kw) == NoParams

\* the object is called with some arguments: lines 400-402
Invoke ==
    /\ l_pc = "live"
    /\ Len(invocations) < MaxCalls
    /\ \E a \in CallerArgs :
          LET given == CompiledCode_call(self, a.args, a.kw)
              ok == entry_code[given]
          IN  /\ invocations' = Append(invocations,
                     [supplied |-> a, target |-> self.entry, given |-> given,
                      entry_ret |-> IF ok THEN "result" ELSE "NULL",
                      ret |-> IF ok THEN "result" ELSE "NULL"])
              /\ l_exc' = IF ok THEN l_exc ELSE CalleeError
    /\ UNCHANGED <<callVars, entry_code, build, file, code_refcnt0, code_refcnt, self, owned,
                   fd_open, closes, region, heapbuf, unmaps, result, selfptr, failstep,
                   dealloc_from, l_pc>>

\* the owner drops the last reference to the object
Destroy ==
    /\ l_pc = "live"
    /\ dealloc_from' = "destroy"
    /\ l_pc' = "dealloc"
    /\ UNCHANGED <<callVars, entry_code, invocations, build, file, code_refcnt0, code_refcnt, self, owned, fd_open,
                   closes, region, heapbuf, unmaps, l_exc, result, selfptr, failstep>>

\* what munmap(addr, len) leaves mapped of a region of r bytes at addr
munmap(r, len) == IF len = 0 THEN r ELSE IF len >= r THEN -1 ELSE r - len

\* CompiledCode_dealloc without the munmap of line 307: the handle is closed,
\* the mapping stays
DeallocRegion_NoUnmap ==
    /\ l_pc = "dealloc"
    /\ IF self.entry # "NULL"
       THEN IF build = "mmap"
            THEN /\ l_pc' = "dealloc_close"
                 /\ UNCHANGED <<heapbuf, unmaps, region>>
            ELSE /\ heapbuf' = "freed"
                 /\ l_pc' = "dealloc_decref"
                 /\ UNCHANGED <<unmaps, region>>
       ELSE /\ l_pc' = "dealloc_decref"
            /\ UNCHANGED <<unmaps, region, heapbuf>>
    /\ UNCHANGED <<callVars, entry_code, invocations, build, file, code_refcnt0, code_refcnt, self, owned, fd_open,
                   closes, l_exc, result, selfptr, failstep, dealloc_from>>

\* CompiledCode_dealloc, lines 305-307 and 310: give the region back
DeallocRegion ==
    /\ l_pc = "dealloc"
    /\ IF self.entry # "NULL"
       THEN IF build = "mmap"
            THEN /\ unmaps' = Append(unmaps, self.len)
                 /\ region' = munmap(region, self.len)
                 /\ l_pc' = "dealloc_close"
                 /\ UNCHANGED heapbuf
            ELSE /\ heapbuf' = "freed"
                 /\ l_pc' = "dealloc_decref"
                 /\ UNCHANGED <<unmaps, region>>
       ELSE /\ l_pc' = "dealloc_decref"
            /\ UNCHANGED <<unmaps, region, heapbuf>>
    /\ UNCHANGED <<callVars, entry_code, invocations, build, file, code_refcnt0, code_refcnt, self, owned, fd_open,
                   closes, l_exc, result, selfptr, failstep, dealloc_from>>

\* line 308: close(self->fd)
DeallocClose ==
    /\ l_pc = "dealloc_close"
    /\ closes' = closes + 1
    /\ fd_open' = FALSE
    /\ l_pc' = "dealloc_decref"
    /\ UNCHANGED <<callVars, entry_code, invocations, build, file, code_refcnt0, code_refcnt, self, owned,
                   region, heapbuf, unmaps, l_exc, result, selfptr, failstep, dealloc_from>>

\* line 313: Py_DECREF(self->code); the object is gone
DeallocDecref ==
    /\ l_pc = "dealloc_decref"
    /\ code_refcnt' = code_refcnt - 1
    /\ owned' = owned - 1
    /\ self' = [self EXCEPT !.alive = FALSE]
    /\ l_pc' = IF dealloc_from = "error" THEN "error_null" ELSE "destroyed"
    /\ UNCHANGED <<callVars, entry_code, invocations, build, file, code_refcnt0, fd_open, closes,
                   region, heapbuf, unmaps, l_exc, result, selfptr, failstep, dealloc_from>>

LoaderNext ==
    \/ NewAlloc
    \/ NewOpen \/ NewSeek \/ NewMmap
    \/ NewFopen \/ NewFtell \/ NewMalloc \/ NewFread
    \/ IoError \/ ErrorDiscard \/ ErrorNull \/ NewReturn
    \/ Invoke
    \/ Destroy \/ DeallocRegion \/ DeallocClose \/ DeallocDecref

LoaderSpec == LoaderInit /\ [][LoaderNext]_vars

\* ------------------------------------------------------------- properties
\* the frame the descriptor describes: na positional values, nk keyword pairs,
\* the callee, n + 1 slots in all
Na0 == oparg % 256
Nk0 == (oparg \div 256) % 256
N0 == Na0 + 2 * Nk0
FrameObjects ==
    {<<"pos", i>> : i \in 1..Na0} \cup {<<"key", j>> : j \in 1..Nk0}
      \cup {<<"val", j>> : j \in 1..Nk0} \cup {CalleeObj}
DuplicateKeys == \E i, j \in 1..Nk0 : i # j /\ kwkeys[i] = kwkeys[j]

\* C1: when call_function returns, with a result or a failure, every one of
\* the n+1 slots of the frame has had its reference released exactly once and
\* the stack pointer stands n+1 slots past its initial position.
C1_FrameDrained ==
    pc = "returned" =>
        /\ \A o \in FrameObjects : refs[o] = -1
        /\ pp_stack = N0 + 1

\* C2: a generic callable dispatched with two keyword pairs carrying the same
\* key fails with the duplicate-keyword error naming the callable and the key,
\* is never invoked, and all n+1 slots are still released exactly once.
\* (Runs in which an allocation failed before the duplicate was seen are left out.)
C2_DuplicateDrains ==
    (/\ pc = "returned"
     /\ callee.type = "other" /\ ~callee.bound
     /\ Nk0 >= 2 /\ DuplicateKeys
     /\ exc.type # "MemoryError") =>
        /\ x = NULL
        /\ exc.type = "TypeError"
        /\ exc.text = "got multiple values for keyword argument"
        /\ exc.name = callee.ml_name.id
        /\ \E j \in 1..Nk0 : exc.key = kwkeys[j]
        /\ calls = <<>>
        /\ \A o \in FrameObjects : refs[o] = -1

\* C3: once dispatch begins it runs to completion or failure: it can stop
\* nowhere but at its return, for every frame and callee kind, a bound method
\* over a callable that is no plain function included.
C3_RunsToCompletion == pc = "returned" \/ ENABLED Next

\* C4: a bound method (instance I, function G) dispatched with na positional
\* arguments and no keywords hands G exactly I, a1, ..., a_na in this order,
\* on the fast frame path and on the general function path.
C4_BoundMethodArgs ==
    (callee.bound /\ callee.type = "function" /\ Nk0 = 0) =>
        \A k \in DOMAIN calls :
            calls[k].args.items =
                [i \in 1..(Na0 + 1) |-> IF i = 1 THEN SelfObj ELSE <<"pos", i - 1>>]

\* C5: for a function the fast frame path takes, the binding the fast path
\* makes (parameter i gets the i-th positional argument) is the binding the
\* general function path makes of the same frame.
C5_FastMatchesGeneral ==
    (pc = "fast_eval" /\ ~callee.bound) =>
        /\ fastlocals = [i \in 1..Na0 |-> <<"pos", i>>]
        /\ fastlocals = GeneralArgs(pp_stack, n, na)

OneArgCase ==
    /\ callee.type = "cfunc" /\ ~callee.bound /\ callee.ml_flags = {METH_O}
    /\ Na0 = 1 /\ Nk0 = 0

\* C6: a native one-argument callable F dispatched with na = 1, nk = 0 and X
\* on the stack is invoked exactly once, with X; the reference the stack held
\* on X is released exactly once, after F returned; and the result of the
\* dispatch is what F returned, success or failure.
C6_OneArgCall ==
    OneArgCase =>
        /\ Len(calls) <= 1
        /\ \A k \in DOMAIN calls :
              calls[k].via = "meth" /\ calls[k].args.items = << <<"pos", 1>> >>
        /\ refs[<<"pos", 1>>] \in {0, -1}
        /\ refs[<<"pos", 1>>] = -1 => Len(calls) = 1
        /\ pc = "returned" =>
              /\ Len(calls) = 1
              /\ refs[<<"pos", 1>>] = -1
              /\ x = calls[1].ret
              /\ (x = NULL => exc = CalleeError)

\* a one-argument callable has returned a failure and the dispatch has returned it
C6_Witness ==
    OneArgCase /\ pc = "returned" /\ x = NULL /\ refs[<<"pos", 1>>] = -1
      /\ Len(calls) = 1

NoArgCase ==
    /\ callee.type = "cfunc" /\ ~callee.bound /\ METH_NOARGS \in callee.ml_flags
    /\ Nk0 = 0

\* C7: a native callable of the no-argument convention dispatched with nk = 0
\* and na # 0 is never invoked and fails with the argument-count error that
\* names the callable (the first 200 characters of its name), says it takes no
\* arguments and gives the count na; with na = 0 it is invoked exactly once,
\* with no argument.
C7_NoArgCall ==
    NoArgCase =>
        /\ Na0 # 0 =>
              /\ calls = <<>>
              /\ pc = "returned" =>
                    /\ x = NULL
                    /\ exc.type = "TypeError"
                    /\ exc.text = "takes no arguments"
                    /\ exc.name = callee.ml_name.id
                    /\ exc.shown = Min(callee.ml_name.chars, 200)
                    /\ exc.count = Na0
        /\ Na0 = 0 =>
              /\ Len(calls) <= 1
              /\ \A k \in DOMAIN calls : calls[k].via = "meth" /\ calls[k].args.null
              /\ pc = "returned" => Len(calls) = 1

\* a no-argument callable with a long name was refused two arguments
C7_Witness ==
    NoArgCase /\ Na0 = 2 /\ pc = "returned" /\ exc.count = 2
      /\ callee.ml_name.chars > 200

RegionLive == region # -1 \/ heapbuf = "allocated"

\* C8: whenever the executable region is mapped (or the heap buffer is
\* allocated), and whenever the backing handle is open, the object holds its
\* strong reference to the artifact, which is therefore alive: the reference
\* is taken before the region is mapped and given back only after the region
\* is unmapped or freed and the handle closed.
C8_ArtifactOutlivesRegion ==
    (RegionLive \/ fd_open) =>
        /\ owned = 1
        /\ self.code = "artifact"
        /\ code_refcnt >= 1

\* teardown of a loaded object: the region is gone, the handle closed, the
\* artifact still held
C8_Witness ==
    /\ l_pc = "dealloc_decref" /\ dealloc_from = "destroy"
    /\ build = "mmap" /\ unmaps # <<>> /\ region = -1 /\ ~fd_open /\ owned = 1

\* C9: loading a well-formed artifact of length L and destroying the object
\* maps L bytes, unmaps exactly L bytes exactly once, and releases the artifact
\* exactly once: its reference count is back to what it was before construction.
C9_LoadDestroy ==
    build = "mmap" =>
        /\ region \in {-1, file.len}
        /\ Len(unmaps) <= 1
        /\ owned \in {0, 1}
        /\ l_pc = "destroyed" =>
              /\ unmaps = <<file.len>>
              /\ region = -1
              /\ owned = 0
              /\ code_refcnt = code_refcnt0

C9_Witness ==
    build = "mmap" /\ l_pc = "destroyed" /\ file.len = 2 /\ unmaps = <<2>>
      /\ code_refcnt = code_refcnt0

FailedAt(steps) == l_pc = "failed" /\ failstep \in steps
Discarded ==
    /\ result = "NULL"
    /\ ~self.alive
    /\ owned = 0
    /\ code_refcnt = code_refcnt0
    /\ ~RegionLive

\* C10 as stated: construction failing at the open, the length or the map step
\* returns no object, discards the partial object (artifact reference released,
\* nothing mapped) and raises an IO/OS error carrying the failing path.
C10_FailureCarriesPath ==
    FailedAt({"open", "length", "map"}) =>
        /\ Discarded
        /\ l_exc.type \in {"IOError", "OSError"}
        /\ l_exc.path = file.path

\* C10 amended: construction failing at the open, the length or the map step
\* returns no object and discards the partial object (artifact reference
\* released, nothing mapped); the open and the length step raise an IOError
\* carrying the failing path, the map step an OSError without the path.
C10_FailureDiscards ==
    FailedAt({"open", "length", "map"}) =>
        /\ Discarded
        /\ failstep \in {"open", "length"} =>
              l_exc.type = "IOError" /\ l_exc.path = file.path
        /\ failstep = "map" => l_exc.type = "OSError" /\ l_exc.path = ""

C10_Witness == FailedAt({"map"}) /\ file.len > 0 /\ closes = 1

FastPathTaken == \E k \in DOMAIN calls : calls[k].via = "PyEval_EvalFrameEx"

\* C11 as stated: on the fast function path the recursion-depth counter is one
\* above its entry value while the frame executes, and back at its entry value
\* when dispatch returns.
C11_DepthAroundExecution ==
    /\ \A k \in DOMAIN calls :
          calls[k].via = "PyEval_EvalFrameEx" => calls[k].depth = 1
    /\ pc = "returned" => recursion_depth = 0

\* C11 amended: on the fast function path the bridge leaves the counter at its
\* entry value while the frame executes, raises it by one only after the
\* execution has finished, keeps it raised while the frame is released, and
\* lowers it again: it is back at its entry value when dispatch returns, on
\* success, on callee failure and on frame-allocation failure.
C11_DepthAroundRelease ==
    /\ \A k \in DOMAIN calls :
          calls[k].via = "PyEval_EvalFrameEx" => calls[k].depth = 0
    /\ recursion_depth = IF pc \in {"fast_release", "fast_dec"} THEN 1 ELSE 0
    /\ pc = "fast_release" => frame = "live" /\ FastPathTaken
    /\ pc = "fast_dec" => frame = "freed"
    /\ pc = "returned" => recursion_depth = 0

\* the frame has run and failed, and has just been released at raised depth
C11_Witness ==
    /\ pc = "fast_dec" /\ recursion_depth = 1 /\ frame = "freed"
    /\ FastPathTaken /\ x = NULL

\* C12: on every dispatch path the target is handed control at most once, and
\* when it was, what call_function returns is what that call returned: its
\* result, or its failure with its error still the pending one.
C12_ResultPassedThrough ==
    /\ Len(calls) <= 1
    /\ (pc = "returned" /\ Len(calls) = 1) =>
          /\ x = calls[1].ret
          /\ calls[1].ret = NULL => exc = CalleeError

\* a generic callable was called with keywords, failed, and the failure came back
C12_Witness ==
    /\ pc = "returned" /\ Len(calls) = 1 /\ calls[1].via = "PyObject_Call"
    /\ ~calls[1].kw.null /\ calls[1].ret = NULL /\ x = NULL /\ exc = CalleeError

\* C13: every invocation of a CompiledCode object calls its recorded entry
\* point once, with zero parameters, and returns what that call returned; two
\* invocations that differ only in the arguments the caller supplied call the
\* entry point identically and return the same outcome.
C13_ArgumentsIgnored ==
    /\ \A i \in DOMAIN invocations :
          /\ invocations[i].target = "mem"
          /\ invocations[i].given = NoParams
          /\ invocations[i].ret = invocations[i].entry_ret
    /\ \A i, j \in DOMAIN invocations :
          /\ invocations[i].given = invocations[j].given
          /\ invocations[i].ret = invocations[j].ret

\* two invocations with different caller arguments, on machine code that would
\* tell them apart if it were given them
C13_Witness ==
    /\ Len(invocations) = 2
    /\ invocations[1].supplied # invocations[2].supplied
    /\ entry_code[invocations[1].supplied] # entry_code[invocations[2].supplied]
    /\ invocations[1].ret = invocations[2].ret

\* the frame as it lies on the stack: how many positional values and keyword
\* keys the generated code pushed, and where it pushed the callee
Pushed(tag) == Cardinality({a \in DOMAIN stack : stack[a][1] = tag})
CalleeAddr == CHOOSE a \in DOMAIN stack : stack[a] = CalleeObj

\* C14: for every descriptor, bits above 15 set or not, call_function takes
\* na from bits 0-7 and nk from bits 8-15, both within 0..255, n = na + 2 nk,
\* and finds the callee exactly n slots above the stack top: the frame it works
\* on is the one that was pushed.
C14_DecodesFrame ==
    pc = "dispatch" =>
        /\ na \in 0..255 /\ nk \in 0..255
        /\ na = Pushed("pos")
        /\ nk = Pushed("key") /\ nk = Pushed("val")
        /\ na + 256 * nk = oparg % 65536
        /\ n = na + 2 * nk
        /\ pfunc = pp_stack + n
        /\ pfunc = CalleeAddr
        /\ func = CalleeObj

\* a descriptor with a bit above 15 set, one positional value, two keyword pairs
C14_Witness ==
    pc = "dispatch" /\ oparg >= 65536 /\ na = 1 /\ nk = 2 /\ func = CalleeObj

FramePositionals == [i \in 1..Na0 |-> <<"pos", i>>]
FrameKeywords == { [key |-> <<"key", j>>, value |-> <<"val", j>>] : j \in 1..Nk0 }

\* C15: a plain function that is not eligible for the fast path has its
\* general call protocol receive exactly the na positional values of the frame
\* in left-to-right order and exactly the nk keyword pairs of the frame, each
\* key with its own value: never the callee slot, never a slot outside the frame.
C15_GeneralPathArguments ==
    (callee.type = "function" /\ ~callee.bound) =>
        \A k \in DOMAIN calls :
            calls[k].via = "PyEval_EvalCodeEx" =>
                /\ calls[k].args.items = FramePositionals
                /\ calls[k].kw.entries = FrameKeywords

\* the conditions of the fast frame path, on the frame as the caller pushed it
RewrittenN == Na0 + (IF callee.bound THEN 1 ELSE 0)
FastConditions ==
    /\ callee.argdefs = 0
    /\ callee.co_kwonlyargcount = 0
    /\ Nk0 = 0
    /\ callee.co_argcount = RewrittenN
    /\ callee.co_flags = {CO_OPTIMIZED, CO_NEWLOCALS, CO_NOFREE}
GeneralPathTaken == \E k \in DOMAIN calls : calls[k].via = "PyEval_EvalCodeEx"

\* C16: an interpreted function runs through the fast frame path exactly when
\* it declares no defaults, has no keyword-only parameters, nk = 0, its
\* positional parameter count equals the (rewritten) n and its flags are exactly
\* optimized + new-locals + no-free-variables; otherwise it goes through the
\* general path; on the fast path local i is the i-th argument of the n.
C16_FastPathSelection ==
    callee.type = "function" =>
        /\ FastPathTaken => FastConditions
        /\ GeneralPathTaken => ~FastConditions
        /\ pc \in {"fast_copy", "fast_eval", "fast_inc", "fast_release", "fast_dec"}
              => FastConditions
        /\ pc = "decref_func" =>
              /\ ~FastConditions => GeneralPathTaken
              /\ FastConditions => (FastPathTaken \/ exc.type = "MemoryError")
        /\ \A k \in DOMAIN calls :
              calls[k].via = "PyEval_EvalFrameEx" =>
                  /\ Len(calls[k].args.items) = RewrittenN
                  /\ calls[k].args.items =
                        (IF callee.bound THEN <<SelfObj>> ELSE <<>>) \o FramePositionals

\* a bound method over an eligible two-parameter function, run on the fast path
C16_Witness ==
    /\ callee.type = "function" /\ callee.bound /\ Na0 = 1
    /\ pc = "decref_func" /\ FastPathTaken
    /\ calls[1].args.items = <<SelfObj, <<"pos", 1>> >>

\* the hand-overs whose positional sequence load_args built
ViaLoadArgs(c) == c.via \in {"PyCFunction_Call", "PyObject_Call"} /\ ~c.args.null
BoundPrefix == IF callee.bound THEN <<SelfObj>> ELSE <<>>

\* C17: wherever load_args builds the positional sequence (a native callable
\* of the general convention with nk = 0, and every generic callable), the
\* sequence has length na and holds the positional arguments in their original
\* left-to-right order, the slot popped first being the last element; the
\* popped slots' references pass to the sequence, which releases each once;
\* the native nk = 0 case hands over no keyword mapping.
C17_SequenceInOrder ==
    /\ (pc \in {"cfunc_call", "do_invoke"} /\ ~callargs.null) =>
          /\ Len(callargs.items) = na
          /\ na = Na0 + Len(BoundPrefix)
          /\ callargs.items = BoundPrefix \o FramePositionals
          /\ Na0 > 0 => callargs.items[na] = stack[pp_stack - Na0 - Len(BoundPrefix)]
          /\ pp_stack = pfunc + Len(BoundPrefix)
          /\ \A i \in 1..Na0 : refs[<<"pos", i>>] = 0
    /\ \A k \in DOMAIN calls :
          ViaLoadArgs(calls[k]) =>
              /\ calls[k].args.items = BoundPrefix \o FramePositionals
              /\ (callee.type = "cfunc" /\ ~callee.bound /\ Nk0 = 0) => calls[k].kw.null
    /\ \A i \in 1..Na0 :
          /\ refs[<<"pos", i>>] >= -1
          /\ (pc \in {"cleanup", "decref_func"}
                /\ \E k \in DOMAIN calls : ViaLoadArgs(calls[k]))
              => refs[<<"pos", i>>] = -1

\* two positional arguments handed to a native callable of the general
\* convention, the tuple already released
C17_Witness ==
    /\ callee.type = "cfunc" /\ ~callee.bound /\ Na0 = 2 /\ Nk0 = 0
    /\ pc = "cleanup" /\ Len(calls) = 1
    /\ calls[1].via = "PyCFunction_Call"
    /\ calls[1].args.items = << <<"pos", 1>>, <<"pos", 2>> >>
    /\ refs[<<"pos", 1>>] = -1 /\ refs[<<"pos", 2>>] = -1

CallerObjects == {<<"caller", k>> : k \in 1..CallerSlots}
HandedOver(c) ==
    {c.args.items[i] : i \in DOMAIN c.args.items}
      \cup {e.key : e \in c.kw.entries} \cup {e.value : e \in c.kw.entries}

\* C18: during any dispatch the working stack pointer never moves beyond one
\* slot past the callee slot, and no slot of the caller beyond the callee slot
\* is popped, released or read as an argument.
C18_StaysInFrame ==
    /\ pp_stack <= N0 + 1
    /\ pc # "fault"
    /\ \A o \in CallerObjects : refs[o] = 0
    /\ \A k \in DOMAIN calls : HandedOver(calls[k]) \cap CallerObjects = {}

Opened == self.fd = "fd"
AttemptOver == l_pc \in {"failed", "destroyed"}

\* C19: on the file-mapping build, over the whole life of a construction
\* attempt (failed at open, at the length, at the map, or successful and later
\* destroyed) a handle that was opened is closed exactly once, never leaked and
\* never closed twice, and close is never called on a handle that did not open.
C19_HandleClosedOnce ==
    build = "mmap" =>
        /\ closes <= (IF Opened THEN 1 ELSE 0)
        /\ fd_open => (Opened /\ closes = 0)
        /\ (Opened /\ ~fd_open) => closes = 1
        /\ AttemptOver => (~fd_open /\ closes = (IF Opened THEN 1 ELSE 0))
        /\ (AttemptOver /\ failstep \in {"length", "map"}) => closes = 1
        /\ (AttemptOver /\ failstep = "open") => closes = 0
        /\ l_pc = "destroyed" => closes = 1

\* the length could not be determined: the handle was closed on the spot and
\* the discard of the object did not close it again
C19_Witness ==
    /\ build = "mmap" /\ l_pc = "failed" /\ failstep = "length"
    /\ Opened /\ ~fd_open /\ closes = 1
=============================================================================
